---- MODULE Spec2Model ----
(***************************************************************************)
(* AutoDeploy Agent: the orchestration state machine of App.tsx, the       *)
(* deployment pipeline (createRepository, pushFilesToRepo,                 *)
(* createVercelProject) and the history reconciler (syncHistory,           *)
(* saveHistory, the gist store).                                           *)
(*                                                                         *)
(* React state is one variable per useState cell.  An async handler is a   *)
(* process: the code between two awaits is one atomic step, and the values *)
(* a handler closes over (config, project, prompt, savedProjects) are      *)
(* captured in its record when it starts, as the closure captures them.    *)
(* Functional updates (setLogs(prev => ...), setSavedProjects(prev => ...))*)
(* read the current cell; plain updates write the captured value.          *)
(*                                                                         *)
(* logs, the console, is kept as the bag of its entries: no handler reads  *)
(* it, and the order in which the entries of concurrent handlers arrive is *)
(* the order of their steps.  The entries one run appended are kept in     *)
(* order in the run's record (emitted).  runs holds the generation and     *)
(* deployment handlers that have not returned yet, finished the record of  *)
(* the one that returned last.                                             *)
(***************************************************************************)
EXTENDS Integers, Sequences, FiniteSets, Bags, TLC

\* ------------------------------------------------------------------ bounds
MaxRequests == 3  \* user requests that start work: login, generate, deploy, load
                  \* from history, save, delete, sync
MaxFiles == 2     \* files of a generated project
MaxHistory == 2   \* records of a stored history list (local or in the gist)

\* ------------------------------------------------------------- value sets
\* null / undefined; a record, so that it compares with every record of the model
NULL == [null |-> TRUE]

Steps == {"CONFIG", "PROMPT", "GENERATING", "REVIEW", "DEPLOYING", "SUCCESS"}

GithubTokens == {"", "ghp"}
VercelTokens == {"", "vct"}
Logins == {"octo"}
Prompts == {"", " ", "todo app"}
Modes == {"generate", "paste"}

AllPaths == <<"index.html", "src/main.ts", "vercel.json", "package.json">>

FileNode(i) == [path |-> AllPaths[i], content |-> "text"]

Files(n) == [i \in 1..n |-> FileNode(i)]

GeneratedProject(nm, n) == [name |-> nm, description |-> "desc", files |-> Files(n)]

\* what generateProjectCode may return: an empty project or one with MaxFiles files
GeneratedProjects == {GeneratedProject("app", n) : n \in {0, MaxFiles}}

\* variant: a trim that leaves the blanks in place
TrimNothing(s) == s

\* String.prototype.trim() on the prompts of the model
Trim(s) == IF s = " " THEN "" ELSE s

Truthy(s) == s # ""

LogEntry(type, message) == [type |-> type, message |-> message]

\* the paths of a project's files, in the declared order
Paths(proj) == [j \in 1..Len(proj.files) |-> proj.files[j].path]

\* ------------------------------------------------------------ the state
VARIABLES
    step, config, logs, prompt, project, deploymentResult, mode,
    savedProjects, showHistory, isSyncing,      \* useState cells of App
    lsConfig, lsHistory,                        \* localStorage
    repos, remoteFiles, gists,                  \* the source-control host
    restore, logins, syncs, pushes, runs,       \* async handlers in flight
    finished, nRequests,                        \* the last run that ended; requests made
    nextId, now,                                \* Math.random ids, Date.now
    verified,                                   \* history: the identities the host has
                                                \* returned to a verification so far
    deleted,                                    \* history: the ids deleteProject removed
    pushLog                                     \* history: whether a push failed, whether
                                                \* one started beside another, the last
                                                \* list given to saveHistoryToGist

uiVars == <<step, config, logs, prompt, project, deploymentResult, mode,
            savedProjects, showHistory, isSyncing>>
storeVars == <<lsConfig, lsHistory>>
hostVars == <<repos, remoteFiles, gists>>
runVars == <<runs, finished, nRequests>>
procVars == <<restore, logins, syncs, pushes, runVars>>
auxVars == <<nextId, now, verified, deleted, pushLog>>
vars == <<uiVars, storeVars, hostVars, procVars, auxVars>>

EmptyConfig ==
    [githubToken |-> "", githubUsername |-> "", vercelToken |-> "", useBetaDeploy |-> FALSE]

\* configurations a previous session may have written with saveConfig: hosting
\* wanted with a token, wanted without a token (the token was cleared after
\* the box was ticked), and a token without the box ticked
StoredConfigs ==
    { [githubToken |-> "ghp", githubUsername |-> "octo", vercelToken |-> v,
       useBetaDeploy |-> b] : v \in VercelTokens, b \in BOOLEAN } \
    { [githubToken |-> "ghp", githubUsername |-> "octo", vercelToken |-> "",
       useBetaDeploy |-> FALSE] }

\* a record saved by an earlier session of this client, and one another client
\* pushed to the gist
OldRecord ==
    [id |-> 100, timestamp |-> 1, prompt |-> "blog", project |-> GeneratedProject("blog", 1)]
CloudRecord ==
    [id |-> 200, timestamp |-> 3, prompt |-> "shop", project |-> GeneratedProject("shop", 1)]

\* a record pushed by a client whose clock is ahead of this one's
AheadRecord ==
    [id |-> 300, timestamp |-> 20, prompt |-> "docs", project |-> GeneratedProject("docs", 1)]

Gist(history) == [description |-> "autodeploy-sync", history |-> history]

\* JSON.stringify of a history list, as localStorage and the gist file hold it,
\* and JSON.parse of it
Stringify(history) == [json |-> history]
Parse(item) == item.json

\* what the browser and the host hold when the app is opened: a first visit,
\* or a return with a stored configuration and a stored history
InitialStores ==
    { [cfg |-> NULL, hist |-> NULL, gists |-> <<>>] }
    \cup { [cfg |-> c, hist |-> Stringify(<<OldRecord>>), gists |-> <<>>] : c \in StoredConfigs }

\* the mount effect up to its first await
InitFrom(stores) ==
    \E s \in stores :
        /\ lsConfig = s.cfg
        /\ lsHistory = s.hist
        /\ gists = s.gists
        /\ step = "CONFIG"
        /\ config = IF s.cfg = NULL THEN EmptyConfig ELSE s.cfg
        /\ restore = IF s.cfg # NULL /\ Truthy(s.cfg.githubToken) THEN "verifying" ELSE "idle"
        /\ savedProjects = IF s.hist = NULL THEN <<>> ELSE Parse(s.hist)
        /\ logs = EmptyBag
        /\ prompt = ""
        /\ project = NULL
        /\ deploymentResult = NULL
        /\ mode = "generate"
        /\ showHistory = FALSE
        /\ isSyncing = FALSE
        /\ repos = {}
        /\ remoteFiles = {}
        /\ logins = <<>>
        /\ syncs = <<>>
        /\ pushes = <<>>
        /\ runs = EmptyBag
        /\ finished = NULL
        /\ nRequests = 0
        /\ nextId = 1
        /\ now = 10
        /\ verified = {}
        /\ deleted = {}
        /\ pushLog = [failed |-> FALSE, overlapped |-> FALSE, latest |-> NULL]

Init == InitFrom(InitialStores)

\* ------------------------------------------------------------- helpers
\* the entries of a sequence, as a bag
BagOfSeq(out) ==
    [e \in {out[i] : i \in 1..Len(out)} |-> Cardinality({i \in 1..Len(out) : out[i] = e})]

\* setLogs(prev => [...prev, entry]) for each entry of out
AddLogs(l, out) == l (+) BagOfSeq(out)

addLog(l, message, type) == AddLogs(l, <<LogEntry(type, message)>>)


Remove(seq, i) == SubSeq(seq, 1, i - 1) \o SubSeq(seq, i + 1, Len(seq))


\* -------------------------------------------------- history reconciler
\* variant: a merge that appends every local record
AppendAll(combined, prev) == combined \o prev

RECURSIVE AppendMissing(_, _)
\* prev.forEach(p => { if (!combined.find(c => c.id === p.id)) combined.push(p); })
AppendMissing(combined, prev) ==
    IF prev = <<>> THEN combined
    ELSE LET p == Head(prev) IN
         AppendMissing(
             IF \E i \in 1..Len(combined) : combined[i].id = p.id
                 THEN combined ELSE Append(combined, p),
             Tail(prev))

\* variant: a sort by (a, b) => a.timestamp - b.timestamp
InsertByTimestampAscending(sorted, x) ==
    LET k == Cardinality({i \in 1..Len(sorted) : sorted[i].timestamp <= x.timestamp}) IN
    SubSeq(sorted, 1, k) \o <<x>> \o SubSeq(sorted, k + 1, Len(sorted))

\* one step of a stable sort by (a, b) => b.timestamp - a.timestamp: x goes
\* behind every element whose timestamp is not smaller
InsertByTimestamp(sorted, x) ==
    LET k == Cardinality({i \in 1..Len(sorted) : sorted[i].timestamp >= x.timestamp}) IN
    SubSeq(sorted, 1, k) \o <<x>> \o SubSeq(sorted, k + 1, Len(sorted))

RECURSIVE SortByTimestamp(_)
SortByTimestamp(s) ==
    IF s = <<>> THEN <<>>
    ELSE InsertByTimestamp(SortByTimestamp(SubSeq(s, 1, Len(s) - 1)), s[Len(s)])

\* variant: a merge that takes the local list as its base
MergeOntoLocal(prev, cloudHistory) == SortByTimestamp(AppendMissing(prev, cloudHistory))

\* the functional update of syncHistory
Merge(prev, cloudHistory) == SortByTimestamp(AppendMissing(cloudHistory, prev))

\* loadHistoryFromGist: null when the request fails or no sync gist exists
loadHistoryFromGist(ok) ==
    IF ~ok \/ Len(gists) = 0 THEN NULL ELSE [history |-> gists[1].history]

\* syncHistory up to its await: a process waiting for loadHistoryFromGist
SyncStart(token, silent) ==
    IF ~Truthy(token) THEN [syncs |-> syncs, logs |-> <<>>, syncing |-> isSyncing]
    ELSE [syncs |-> Append(syncs, [silent |-> silent]),
          logs |-> IF silent THEN <<>>
                   ELSE <<LogEntry("info", <<"Syncing projects with GitHub Cloud...">>)>>,
          syncing |-> IF silent THEN isSyncing ELSE TRUE]

\* variant: a sync that pushes the local list when it finds no gist
SyncReturnCreatingGist(i, ok) ==
    /\ i \in 1..Len(syncs)
    /\ LET s == syncs[i]
           cloudHistory == loadHistoryFromGist(ok)
       IN /\ syncs' = Remove(syncs, i)
          /\ IF cloudHistory # NULL
                THEN /\ savedProjects' = Merge(savedProjects, cloudHistory.history)
                     /\ lsHistory' = Stringify(Merge(savedProjects, cloudHistory.history))
                     /\ logs' = IF s.silent THEN logs
                                ELSE addLog(logs, <<"History synced successfully.">>, "success")
                     /\ UNCHANGED pushes
                ELSE /\ UNCHANGED <<savedProjects, lsHistory>>
                     /\ pushes' = Append(pushes, [pc |-> "list", history |-> savedProjects,
                                                  existingGist |-> 0])
                     /\ logs' = IF s.silent THEN logs
                                ELSE addLog(logs, <<"No cloud history found. Creating new sync file...">>, "info")
          /\ isSyncing' = IF s.silent THEN isSyncing ELSE FALSE
    /\ UNCHANGED <<step, config, prompt, project, deploymentResult, mode, showHistory,
                   lsConfig, hostVars, restore, logins, runVars, auxVars>>

\* syncHistory after loadHistoryFromGist returned
SyncReturn(i, ok) ==
    /\ i \in 1..Len(syncs)
    /\ LET s == syncs[i]
           cloudHistory == loadHistoryFromGist(ok)
       IN /\ syncs' = Remove(syncs, i)
          /\ IF cloudHistory # NULL
                THEN /\ savedProjects' = Merge(savedProjects, cloudHistory.history)
                     /\ lsHistory' = Stringify(Merge(savedProjects, cloudHistory.history))
                     /\ logs' = IF s.silent THEN logs
                                ELSE addLog(logs, <<"History synced successfully.">>, "success")
                ELSE /\ UNCHANGED <<savedProjects, lsHistory>>
                     /\ logs' = IF s.silent THEN logs
                                ELSE addLog(logs, <<"No cloud history found. Creating new sync file...">>, "info")
          /\ isSyncing' = IF s.silent THEN isSyncing ELSE FALSE
    /\ UNCHANGED <<step, config, prompt, project, deploymentResult, mode, showHistory,
                   lsConfig, hostVars, restore, logins, pushes, runVars, auxVars>>

\* variant: a saveHistory that pushes without looking at the token
PushStartAlways(token, newHistory) ==
    Append(pushes, [pc |-> "list", history |-> newHistory, existingGist |-> 0])

\* saveHistoryToGist up to its first await, when saveHistory has a token
PushStart(token, newHistory) ==
    IF Truthy(token)
        THEN Append(pushes, [pc |-> "list", history |-> newHistory, existingGist |-> 0])
        ELSE pushes

\* the record of the pushes, when saveHistory is called with newHistory
PushLogged(token, newHistory) ==
    IF Truthy(token)
        THEN [pushLog EXCEPT !.overlapped = @ \/ pushes # <<>>,
                             !.latest = [history |-> newHistory]]
        ELSE pushLog

\* saveHistoryToGist after GET /gists returned: PATCH the sync gist or POST a new one
GistListReturn(i, ok) ==
    /\ i \in 1..Len(pushes)
    /\ pushes[i].pc = "list"
    /\ pushes' = IF ok
                    THEN [pushes EXCEPT ![i].pc = "write",
                                        ![i].existingGist = IF Len(gists) > 0 THEN 1 ELSE 0]
                    ELSE Remove(pushes, i)
    /\ pushLog' = IF ok THEN pushLog ELSE [pushLog EXCEPT !.failed = TRUE]
    /\ UNCHANGED <<uiVars, storeVars, hostVars, restore, logins, syncs, runVars,
                   nextId, now, verified, deleted>>

\* saveHistoryToGist after its PATCH or POST returned; the response is not read
GistWriteReturn(i, ok) ==
    /\ i \in 1..Len(pushes)
    /\ pushes[i].pc = "write"
    /\ pushes' = Remove(pushes, i)
    /\ gists' = IF ~ok THEN gists
                ELSE IF pushes[i].existingGist > 0
                    THEN [gists EXCEPT ![pushes[i].existingGist].history = pushes[i].history]
                    ELSE Append(gists, Gist(pushes[i].history))
    /\ pushLog' = IF ok THEN pushLog ELSE [pushLog EXCEPT !.failed = TRUE]
    /\ UNCHANGED <<uiVars, storeVars, repos, remoteFiles, restore, logins, syncs, runVars,
                   nextId, now, verified, deleted>>

\* ------------------------------------------------- credentials (CONFIG)
\* the history overlay covers the whole window while it is open
MainPanel == ~showHistory

SetGithubToken(t) ==
    /\ MainPanel /\ step = "CONFIG"
    /\ config' = [config EXCEPT !.githubToken = t]
    /\ UNCHANGED <<step, logs, prompt, project, deploymentResult, mode, savedProjects,
                   showHistory, isSyncing, storeVars, hostVars, procVars, auxVars>>

SetVercelToken(v) ==
    /\ MainPanel /\ step = "CONFIG"
    /\ config' = [config EXCEPT !.vercelToken = v]
    /\ UNCHANGED <<step, logs, prompt, project, deploymentResult, mode, savedProjects,
                   showHistory, isSyncing, storeVars, hostVars, procVars, auxVars>>

\* the checkbox is disabled while no hosting token is typed
SetUseBetaDeploy(b) ==
    /\ MainPanel /\ step = "CONFIG"
    /\ Truthy(config.vercelToken)
    /\ config' = [config EXCEPT !.useBetaDeploy = b]
    /\ UNCHANGED <<step, logs, prompt, project, deploymentResult, mode, savedProjects,
                   showHistory, isSyncing, storeVars, hostVars, procVars, auxVars>>

\* handleLogin up to its await
handleLogin ==
    /\ MainPanel /\ step = "CONFIG"
    /\ Truthy(config.githubToken)
    /\ nRequests < MaxRequests
    /\ nRequests' = nRequests + 1
    /\ logs' = addLog(logs, <<"Verifying GitHub credentials...">>, "info")
    /\ logins' = Append(logins, config)
    /\ UNCHANGED <<step, config, prompt, project, deploymentResult, mode, savedProjects,
                   showHistory, isSyncing, storeVars, hostVars, restore, syncs, pushes,
                   runs, finished, auxVars>>

\* handleLogin after verifyGithubToken returned
LoginVerifyReturn(i, ok, username) ==
    /\ i \in 1..Len(logins)
    /\ logins' = Remove(logins, i)
    /\ IF ok
          THEN LET newConfig == [logins[i] EXCEPT !.githubUsername = username]
                   sync == SyncStart(newConfig.githubToken, FALSE)
               IN /\ config' = newConfig
                  /\ lsConfig' = newConfig
                  /\ step' = "PROMPT"
                  /\ logs' = AddLogs(addLog(logs, <<"Login successful.", username>>, "success"), sync.logs)
                  /\ syncs' = sync.syncs
                  /\ isSyncing' = sync.syncing
          ELSE /\ logs' = addLog(logs, <<"Invalid GitHub Token">>, "error")
               /\ UNCHANGED <<config, lsConfig, step, syncs, isSyncing>>
    /\ verified' = IF ok THEN verified \cup {username} ELSE verified
    /\ UNCHANGED <<prompt, project, deploymentResult, mode, savedProjects, showHistory,
                   lsHistory, hostVars, restore, pushes, runVars, nextId, now, deleted,
                   pushLog>>

\* the mount effect after verifyGithubToken(parsed.githubToken) returned
RestoreVerifyReturn(ok, username) ==
    /\ restore = "verifying"
    /\ restore' = "done"
    /\ IF ok
          THEN LET sync == SyncStart(lsConfig.githubToken, TRUE)
               IN /\ config' = [config EXCEPT !.githubUsername = username]
                  /\ step' = "PROMPT"
                  /\ logs' = AddLogs(addLog(logs, <<"Session restored.", username>>, "success"), sync.logs)
                  /\ syncs' = sync.syncs
                  /\ isSyncing' = sync.syncing
          ELSE /\ logs' = addLog(logs, <<"Saved token expired or invalid. Please login again.">>, "warning")
               /\ step' = "CONFIG"
               /\ UNCHANGED <<config, syncs, isSyncing>>
    /\ verified' = IF ok THEN verified \cup {username} ELSE verified
    /\ UNCHANGED <<prompt, project, deploymentResult, mode, savedProjects, showHistory,
                   storeVars, hostVars, logins, pushes, runVars, nextId, now, deleted,
                   pushLog>>

\* ------------------------------------------------------- history panel
\* variant: a History button rendered on every step
OpenHistoryOnEveryStep ==
    /\ MainPanel
    /\ showHistory' = TRUE
    /\ UNCHANGED <<step, config, logs, prompt, project, deploymentResult, mode,
                   savedProjects, isSyncing, storeVars, hostVars, procVars, auxVars>>

\* the History button is rendered on every step but CONFIG
OpenHistory ==
    /\ MainPanel /\ step # "CONFIG"
    /\ showHistory' = TRUE
    /\ UNCHANGED <<step, config, logs, prompt, project, deploymentResult, mode,
                   savedProjects, isSyncing, storeVars, hostVars, procVars, auxVars>>

CloseHistory ==
    /\ showHistory
    /\ showHistory' = FALSE
    /\ UNCHANGED <<step, config, logs, prompt, project, deploymentResult, mode,
                   savedProjects, isSyncing, storeVars, hostVars, procVars, auxVars>>

loadProject(entry) ==
    /\ showHistory
    /\ nRequests < MaxRequests
    /\ nRequests' = nRequests + 1
    /\ prompt' = entry.prompt
    /\ project' = entry.project
    /\ step' = "REVIEW"
    /\ showHistory' = FALSE
    /\ logs' = addLog(logs, <<"Loaded project", entry.project.name>>, "info")
    /\ UNCHANGED <<config, deploymentResult, mode, savedProjects, isSyncing,
                   storeVars, hostVars, restore, logins, syncs, pushes, runs, finished,
                   auxVars>>

\* ------------------------------------------------------ prompt editor
\* the textarea and the mode buttons are disabled while GENERATING
SetPrompt(p) ==
    /\ MainPanel /\ step = "PROMPT"
    /\ p # prompt
    /\ prompt' = p
    /\ UNCHANGED <<step, config, logs, project, deploymentResult, mode, savedProjects,
                   showHistory, isSyncing, storeVars, hostVars, procVars, auxVars>>

SetMode(m) ==
    /\ MainPanel /\ step = "PROMPT"
    /\ m # mode
    /\ mode' = m
    /\ UNCHANGED <<step, config, logs, prompt, project, deploymentResult, savedProjects,
                   showHistory, isSyncing, storeVars, hostVars, procVars, auxVars>>

\* "Back to Editor", rendered in REVIEW (with a project) and in SUCCESS (with a result)
BackToEditor ==
    /\ MainPanel
    /\ \/ step = "REVIEW" /\ project # NULL
       \/ step = "SUCCESS" /\ deploymentResult # NULL
    /\ step' = "PROMPT"
    /\ UNCHANGED <<config, logs, prompt, project, deploymentResult, mode, savedProjects,
                   showHistory, isSyncing, storeVars, hostVars, procVars, auxVars>>

\* "Create New App", rendered in SUCCESS (with a result)
CreateNewApp ==
    /\ MainPanel
    /\ step = "SUCCESS" /\ deploymentResult # NULL
    /\ step' = "PROMPT"
    /\ project' = NULL
    /\ logs' = EmptyBag
    /\ prompt' = ""
    /\ UNCHANGED <<config, deploymentResult, mode, savedProjects, showHistory, isSyncing,
                   storeVars, hostVars, procVars, auxVars>>

\* ---------------------------------------------------------- generation
One(x) == SetToBag({x})

\* variant: a generate button disabled on a blank prompt only
GenerateDisabledOnBlankOnly == Trim(prompt) = ""

\* disabled={step === Step.GENERATING || !prompt.trim()}
GenerateDisabled == step = "GENERATING" \/ Trim(prompt) = ""

GenerateLog(p, m) ==
    IF m = "generate" THEN LogEntry("info", <<"I'm brainstorming code for:", p>>)
    ELSE LogEntry("info", <<"Analyzing code structure...">>)

\* handleGenerate up to its await; emitted lists the log entries of this run
handleGenerate ==
    IF Trim(prompt) = "" THEN UNCHANGED vars
    ELSE /\ nRequests < MaxRequests
         /\ nRequests' = nRequests + 1
         /\ step' = "GENERATING"
         /\ logs' = AddLogs(logs, <<GenerateLog(prompt, mode)>>)
         /\ runs' = runs (+) One([kind |-> "gen", pc |-> "generate",
                                  prompt |-> prompt, mode |-> mode, config |-> config,
                                  savedProjects |-> savedProjects,
                                  emitted |-> <<GenerateLog(prompt, mode)>>])
         /\ UNCHANGED <<config, prompt, project, deploymentResult, mode, savedProjects,
                        showHistory, isSyncing, storeVars, hostVars, restore, logins,
                        syncs, pushes, finished, auxVars>>

\* a click on the generate button, which is rendered in PROMPT and GENERATING
ClickGenerate ==
    /\ MainPanel /\ step \in {"PROMPT", "GENERATING"}
    /\ IF GenerateDisabled THEN UNCHANGED vars ELSE handleGenerate

\* variant: a handler that records the attempt in the history when it failed too
GenerateReturnRecordingFailure(run, ok, generated) ==
    /\ run \in BagToSet(runs)
    /\ run.kind = "gen" /\ run.pc = "generate"
    /\ runs' = runs (-) One(run)
    /\ IF ok
          THEN LET entry == LogEntry("success", <<"Prepared", generated.name>>)
                   newEntry == [id |-> nextId, timestamp |-> now, prompt |-> run.prompt,
                                project |-> generated]
                   newHistory == <<newEntry>> \o run.savedProjects
               IN /\ project' = generated
                  /\ logs' = AddLogs(logs, <<entry>>)
                  /\ step' = "REVIEW"
                  /\ savedProjects' = newHistory
                  /\ lsHistory' = Stringify(newHistory)
                  /\ pushes' = PushStart(run.config.githubToken, newHistory)
                  /\ pushLog' = PushLogged(run.config.githubToken, newHistory)
                  /\ nextId' = nextId + 1
                  /\ now' = now + 1
                  /\ UNCHANGED <<verified, deleted>>
                  /\ finished' = [run EXCEPT !.pc = "done", !.emitted = Append(@, entry)]
          ELSE LET entry == LogEntry("error", <<"I failed to process the code. Please try again.">>)
                   newEntry == [id |-> nextId, timestamp |-> now, prompt |-> run.prompt,
                                project |-> generated]
                   newHistory == <<newEntry>> \o run.savedProjects
               IN /\ logs' = AddLogs(logs, <<entry>>)
                  /\ step' = "PROMPT"
                  /\ finished' = [run EXCEPT !.pc = "failed", !.emitted = Append(@, entry)]
                  /\ savedProjects' = newHistory
                  /\ lsHistory' = Stringify(newHistory)
                  /\ pushes' = PushStart(run.config.githubToken, newHistory)
                  /\ pushLog' = PushLogged(run.config.githubToken, newHistory)
                  /\ nextId' = nextId + 1
                  /\ now' = now + 1
                  /\ UNCHANGED <<project, verified, deleted>>
    /\ UNCHANGED <<config, prompt, deploymentResult, mode, showHistory, isSyncing,
                   lsConfig, hostVars, restore, logins, syncs, nRequests>>

\* handleGenerate after generateProjectCode returned (ok) or threw
GenerateReturn(run, ok, generated) ==
    /\ run \in BagToSet(runs)
    /\ run.kind = "gen" /\ run.pc = "generate"
    /\ runs' = runs (-) One(run)
    /\ IF ok
          THEN LET entry == LogEntry("success", <<"Prepared", generated.name>>)
                   newEntry == [id |-> nextId, timestamp |-> now, prompt |-> run.prompt,
                                project |-> generated]
                   newHistory == <<newEntry>> \o run.savedProjects
               IN /\ project' = generated
                  /\ logs' = AddLogs(logs, <<entry>>)
                  /\ step' = "REVIEW"
                  /\ savedProjects' = newHistory
                  /\ lsHistory' = Stringify(newHistory)
                  /\ pushes' = PushStart(run.config.githubToken, newHistory)
                  /\ pushLog' = PushLogged(run.config.githubToken, newHistory)
                  /\ nextId' = nextId + 1
                  /\ now' = now + 1
                  /\ UNCHANGED <<verified, deleted>>
                  /\ finished' = [run EXCEPT !.pc = "done", !.emitted = Append(@, entry)]
          ELSE LET entry == LogEntry("error", <<"I failed to process the code. Please try again.">>)
               IN /\ logs' = AddLogs(logs, <<entry>>)
                  /\ step' = "PROMPT"
                  /\ finished' = [run EXCEPT !.pc = "failed", !.emitted = Append(@, entry)]
                  /\ UNCHANGED <<project, savedProjects, lsHistory, pushes, auxVars>>
    /\ UNCHANGED <<config, prompt, deploymentResult, mode, showHistory, isSyncing,
                   lsConfig, hostVars, restore, logins, syncs, nRequests>>

\* ---------------------------------------------------------- deployment
\* Math.floor(Math.random() * 1000): one value of the range stands for it
Suffixes == {999}

RepoName(proj, suffix) == <<proj.name, suffix>>

RepoUrl(owner, repoName) == [site |-> "github.com", owner |-> owner, name |-> repoName]

\* `https://vercel.com/${config.githubUsername}/${vProject.name}`
VercelUrl(username, name) == [site |-> "vercel.com", owner |-> username, name |-> name]

\* what the probe (GET contents) of a path may answer
ProbeResponses ==
    { [kind |-> "ok", sha |-> "3f2a"], [kind |-> "notok", sha |-> ""],
      [kind |-> "throw", sha |-> ""] }

\* variant: a loop that never passes the probe's sha on
ProbeShaDropped(resp) == ""

\* pushFilesToRepo: sha stays undefined unless the probe answered ok
ProbeSha(resp) == IF resp.kind = "ok" THEN resp.sha ELSE ""

\* what POST /v9/projects may answer
VercelResponses == {"created", "exists", "error"}

\* variant: an adapter that throws on every answer that is not ok
createVercelProjectStrict(resp, projectName, repo) ==
    IF resp = "created" THEN [threw |-> FALSE, name |-> projectName]
    ELSE [threw |-> TRUE, name |-> ""]

\* createVercelProject: the parsed body (a project object), the already-exists
\* object, or a throw
createVercelProject(resp, projectName, repo) ==
    CASE resp = "created" -> [threw |-> FALSE, name |-> projectName]
      [] resp = "exists" -> [threw |-> FALSE, name |-> projectName]
      [] OTHER -> [threw |-> TRUE, name |-> ""]

\* disabled={step === Step.DEPLOYING}
DeployDisabled == step = "DEPLOYING"

\* variant: a guard that looks at the checkbox only
HostingWantedByFlagOnly(cfg) == cfg.useBetaDeploy

\* if (config.useBetaDeploy && config.vercelToken)
HostingWanted(cfg) == cfg.useBetaDeploy /\ Truthy(cfg.vercelToken)

\* variant: a result that never carries the hosting URL
DeploymentResultWithoutUrl(repoUrl, vUrl, isBetaSuccess) ==
    [repoUrl |-> repoUrl, deployUrl |-> NULL, isBeta |-> isBetaSuccess]

\* { repoUrl: repoData.html_url, deployUrl: vUrl ? vUrl : undefined, isBeta: isBetaSuccess }
DeploymentResult(repoUrl, vUrl, isBetaSuccess) ==
    [repoUrl |-> repoUrl, deployUrl |-> vUrl, isBeta |-> isBetaSuccess]

\* handleDeploy up to its first await.  repoCalls, probes, puts and hostCalls
\* are the adapter calls the run has issued; created, putOks and host are the
\* answers of the source-control host to createRepository and to each PUT and
\* of the hosting provider; probe and sha are the variables of the upload loop.
handleDeploy ==
    IF project = NULL \/ ~Truthy(config.githubUsername) THEN UNCHANGED vars
    ELSE \E suffix \in Suffixes :
         LET repoName == RepoName(project, suffix)
             out == << LogEntry("warning", <<"Initiating deployment sequence...">>),
                       LogEntry("info", <<"1. Creating repository", repoName[1]>>) >>
         IN /\ nRequests < MaxRequests
            /\ nRequests' = nRequests + 1
            /\ step' = "DEPLOYING"
            /\ logs' = AddLogs(logs, out)
            /\ runs' = runs (+) One([kind |-> "deploy", pc |-> "createRepo",
                                     project |-> project, config |-> config,
                                     repoName |-> repoName, i |-> 0,
                                     created |-> "pending", probe |-> NULL, sha |-> "",
                                     repoCalls |-> 1, probes |-> <<>>, puts |-> <<>>,
                                     putOks |-> <<>>,
                                     hostCalls |-> 0, host |-> "none", failedAt |-> "",
                                     repoUrl |-> NULL, result |-> NULL, emitted |-> out])
            /\ UNCHANGED <<config, prompt, project, deploymentResult, mode, savedProjects,
                           showHistory, isSyncing, storeVars, hostVars, restore, logins,
                           syncs, pushes, finished, auxVars>>

\* a click on the deploy button, which is rendered in REVIEW and DEPLOYING
\* when a project is present
ClickDeploy ==
    /\ MainPanel /\ step \in {"REVIEW", "DEPLOYING"} /\ project # NULL
    /\ IF DeployDisabled THEN UNCHANGED vars ELSE handleDeploy

\* variant: a catch that logs the error and leaves the phase as it is
DeployFailedInPlace(old, run, where, message) ==
    LET entry == LogEntry("error", message)
    IN /\ logs' = AddLogs(logs, <<entry>>)
       /\ runs' = runs (-) One(old)
       /\ finished' = [run EXCEPT !.pc = "failed", !.failedAt = where,
                                  !.emitted = Append(@, entry)]
       /\ UNCHANGED <<step, deploymentResult>>

\* the catch of handleDeploy: handleError(err); setStep(Step.REVIEW)
DeployFailed(old, run, where, message) ==
    LET entry == LogEntry("error", message)
    IN /\ logs' = AddLogs(logs, <<entry>>)
       /\ step' = "REVIEW"
       /\ runs' = runs (-) One(old)
       /\ finished' = [run EXCEPT !.pc = "failed", !.failedAt = where,
                                  !.emitted = Append(@, entry)]
       /\ UNCHANGED deploymentResult

\* setDeploymentResult(...); setStep(Step.SUCCESS)
DeploySucceeded(old, run, out, vUrl, isBetaSuccess) ==
    LET res == DeploymentResult(run.repoUrl, vUrl, isBetaSuccess)
    IN /\ logs' = AddLogs(logs, out)
       /\ deploymentResult' = res
       /\ step' = "SUCCESS"
       /\ runs' = runs (-) One(old)
       /\ finished' = [run EXCEPT !.pc = "done", !.result = res, !.emitted = @ \o out]

\* handleDeploy from the return of pushFilesToRepo to its next await or its end
AfterUpload(old, run, out) ==
    LET uploaded == Append(out, LogEntry("success", <<"Source code uploaded.">>))
    IN IF HostingWanted(run.config)
          THEN LET out2 == Append(uploaded,
                               LogEntry("info", <<"3. [Beta] Creating Vercel Project automatically...">>))
               IN /\ logs' = AddLogs(logs, out2)
                  /\ runs' = (runs (-) One(old))
                                (+) One([run EXCEPT !.pc = "host", !.hostCalls = @ + 1,
                                                    !.host = "pending", !.emitted = @ \o out2])
                  /\ UNCHANGED <<step, deploymentResult, finished>>
          ELSE DeploySucceeded(old, run,
                   Append(uploaded, LogEntry("info", <<"3. Skipping auto-deploy (Beta disabled or no token).">>)),
                   NULL, FALSE)

\* variant: a loop that probes and uploads without reporting the file
StartFileUnreported(old, run, out, i) ==
    LET file == run.project.files[i]
    IN /\ logs' = AddLogs(logs, out)
       /\ runs' = (runs (-) One(old))
                     (+) One([run EXCEPT !.pc = "probe", !.i = i,
                                         !.probe = NULL, !.sha = "",
                                         !.probes = Append(@, file.path),
                                         !.emitted = @ \o out])
       /\ UNCHANGED <<step, deploymentResult, finished>>

\* pushFilesToRepo: the start of the loop body for file i, up to the probe's await
StartFile(old, run, out, i) ==
    LET file == run.project.files[i]
        out2 == Append(out, LogEntry("info", <<"Pushing", file.path>>))
    IN /\ logs' = AddLogs(logs, out2)
       /\ runs' = (runs (-) One(old))
                     (+) One([run EXCEPT !.pc = "probe", !.i = i,
                                         !.probe = NULL, !.sha = "",
                                         !.probes = Append(@, file.path),
                                         !.emitted = @ \o out2])
       /\ UNCHANGED <<step, deploymentResult, finished>>

\* createRepository: if (!response.ok) throw
createRepositoryThrows(ok) == ~ok

\* handleDeploy after createRepository returned (ok) or threw; the host
\* refuses a name that is taken
CreateRepoReturn(old, ok) ==
    /\ old \in BagToSet(runs)
    /\ old.kind = "deploy" /\ old.pc = "createRepo"
    /\ ok => old.repoName \notin repos
    /\ repos' = IF ok THEN repos \cup {old.repoName} ELSE repos
    /\ LET run == [old EXCEPT
                      !.created = IF ok THEN "ok" ELSE "failed",
                      !.repoUrl = IF ok THEN RepoUrl(old.config.githubUsername, old.repoName)
                                  ELSE NULL]
           out == << LogEntry("success", <<"GitHub Repository created successfully.">>),
                     LogEntry("info", <<"2. Uploading source code...">>) >>
       IN IF createRepositoryThrows(ok)
             THEN DeployFailed(old, run, "repo", <<"GitHub Create Repo Error">>)
             ELSE IF Len(run.project.files) = 0
                     THEN AfterUpload(old, run, out)
                     ELSE StartFile(old, run, out, 1)
    /\ UNCHANGED <<config, prompt, project, mode, savedProjects, showHistory, isSyncing,
                   storeVars, remoteFiles, gists, restore, logins, syncs, pushes, nRequests,
                   auxVars>>

\* pushFilesToRepo after the probe of file i returned: the PUT is issued
ProbeReturn(old, resp) ==
    /\ old \in BagToSet(runs)
    /\ old.kind = "deploy" /\ old.pc = "probe"
    /\ LET file == old.project.files[old.i]
       IN runs' = (runs (-) One(old))
                     (+) One([old EXCEPT !.pc = "put", !.probe = resp,
                                         !.sha = ProbeSha(resp),
                                         !.puts = Append(@, file.path)])
    /\ UNCHANGED <<uiVars, storeVars, hostVars, restore, logins, syncs, pushes,
                   finished, nRequests, auxVars>>

\* variant: a loop that does not look at the PUT's answer
UploadNeverThrows(ok) == FALSE

\* pushFilesToRepo: if (!res.ok) throw
UploadThrows(ok) == ~ok

\* variant: a loop that stays on the same file
NextFileRepeated(i) == i

\* pushFilesToRepo: for (const file of files)
NextFile(i) == i + 1

\* pushFilesToRepo after the PUT of file i returned; probe and sha go out of
\* scope with the loop body
PutReturn(old, ok) ==
    /\ old \in BagToSet(runs)
    /\ old.kind = "deploy" /\ old.pc = "put"
    /\ LET file == old.project.files[old.i]
           run == [old EXCEPT !.probe = NULL, !.sha = "", !.putOks = Append(@, ok)]
       IN /\ remoteFiles' = IF ok THEN remoteFiles \cup {<<old.repoName, file.path>>}
                            ELSE remoteFiles
          /\ IF UploadThrows(ok)
                THEN DeployFailed(old, run, "upload", <<"Failed to upload", file.path>>)
                ELSE IF old.i < Len(old.project.files)
                        THEN StartFile(old, run, <<>>, NextFile(old.i))
                        ELSE AfterUpload(old, run, <<>>)
    /\ UNCHANGED <<config, prompt, project, mode, savedProjects, showHistory, isSyncing,
                   storeVars, repos, gists, restore, logins, syncs, pushes, nRequests, auxVars>>

\* variant: a catch that reports the hosting failure as an error
AutoDeployFailedAsError ==
    LogEntry("error", <<"[Beta] Auto-deploy failed. Falling back to manual mode.">>)

\* the catch around createVercelProject
AutoDeployFailedLog ==
    LogEntry("warning", <<"[Beta] Auto-deploy failed. Falling back to manual mode.">>)

\* handleDeploy after createVercelProject returned or threw
HostReturn(old, resp) ==
    /\ old \in BagToSet(runs)
    /\ old.kind = "deploy" /\ old.pc = "host"
    /\ LET run == [old EXCEPT !.host = resp]
           vProject == createVercelProject(resp, old.repoName, <<old.config.githubUsername, old.repoName>>)
       IN IF ~vProject.threw
             THEN DeploySucceeded(old, run,
                      <<LogEntry("success", <<"[Beta] Project created! Build triggered on Vercel.">>)>>,
                      VercelUrl(old.config.githubUsername, vProject.name), TRUE)
             ELSE DeploySucceeded(old, run, <<AutoDeployFailedLog>>, NULL, FALSE)
    /\ UNCHANGED <<config, prompt, project, mode, savedProjects, showHistory, isSyncing,
                   storeVars, hostVars, restore, logins, syncs, pushes, nRequests, auxVars>>

\* ------------------------------------------------------ specification
\* The pipeline and the state machine.  The gist requests that login, session
\* restore and saveHistory start stay pending here (no remote call has a
\* timeout); their returns belong to the history specification.
Next ==
    \/ \E t \in GithubTokens : SetGithubToken(t)
    \/ handleLogin
    \/ \E i \in 1..Len(logins), ok \in BOOLEAN, u \in Logins : LoginVerifyReturn(i, ok, u)
    \/ \E ok \in BOOLEAN, u \in Logins : RestoreVerifyReturn(ok, u)
    \/ OpenHistory
    \/ CloseHistory
    \/ \E i \in 1..Len(savedProjects) : loadProject(savedProjects[i])
    \/ \E p \in Prompts : SetPrompt(p)
    \/ BackToEditor
    \/ CreateNewApp
    \/ ClickGenerate
    \/ \E run \in BagToSet(runs), ok \in BOOLEAN, g \in GeneratedProjects : GenerateReturn(run, ok, g)
    \/ ClickDeploy
    \/ \E run \in BagToSet(runs), ok \in BOOLEAN : CreateRepoReturn(run, ok)
    \/ \E run \in BagToSet(runs), resp \in ProbeResponses : ProbeReturn(run, resp)
    \/ \E run \in BagToSet(runs), ok \in BOOLEAN : PutReturn(run, ok)
    \/ \E run \in BagToSet(runs), resp \in VercelResponses : HostReturn(run, resp)

Spec == Init /\ [][Next]_vars

\* ------------------------------------------------------------- claims
\* the deployment runs in flight, and those together with the last run that
\* ended when it was a deployment
DeployRuns == {r \in BagToSet(runs) : r.kind = "deploy"}

LastDeploy == IF finished # NULL /\ finished.kind = "deploy" THEN {finished} ELSE {}

AllDeploys == DeployRuns \cup LastDeploy

\* a step in which a handler returns; finished' is then its record
RunEnds == BagCardinality(runs') < BagCardinality(runs)

DeployEnds == RunEnds /\ finished'.kind = "deploy"

Last(seq) == seq[Len(seq)]

\* C1: in every reachable state at most one pipeline run (a generation or a
\* deployment that has started and whose adapter calls have not all returned)
\* is in flight.
C1_AtMostOneRunInFlight == BagCardinality(runs) <= 1

\* C2: a generate request while the phase is Generating, and a deploy request
\* while the phase is Deploying, is a no-op: no step of the system is such a
\* request and starts a run (an adapter call), appends a log entry, or changes
\* the phase or the project.
C2_RepeatedTriggerIsNoOp ==
    [][ ((step = "GENERATING" /\ ClickGenerate) \/ (step = "DEPLOYING" /\ ClickDeploy))
            => UNCHANGED <<runs, logs, step, project, repos, remoteFiles, nRequests>> ]_vars

\* C2's case: the phase is Deploying with the deploy button in reach, or
\* Generating with the generate button in reach and a prompt that is not blank
C2_Witness ==
    /\ MainPanel
    /\ \/ step = "DEPLOYING" /\ project # NULL /\ DeployRuns # {}
       \/ step = "GENERATING" /\ Trim(prompt) # "" /\ BagToSet(runs) # {}

\* C3: if repository creation fails during a deployment run, the run issues
\* no probe, no upload and no hosting call and produces no result, and the
\* phase returns from Deploying to ReviewingProject.
C3_RepoFailureReturnsFromDeploying ==
    [][ /\ \A r \in AllDeploys' :
              r.created = "failed" =>
                  /\ r.pc = "failed"
                  /\ r.probes = <<>> /\ r.puts = <<>> /\ r.hostCalls = 0
                  /\ r.result = NULL
        /\ (DeployEnds /\ finished'.created = "failed") =>
              /\ step = "DEPLOYING" /\ step' = "REVIEW"
              /\ UNCHANGED <<deploymentResult, remoteFiles>> ]_vars

\* C4: if the upload of the k-th file fails, the run has issued the uploads
\* (and probes) of files 1..k once each in order and nothing after k, makes no
\* hosting call, files 1..k-1 stay in the remote repository (no step removes a
\* remote file), and the phase returns to ReviewingProject.
C4_UploadFailureStopsTheRun ==
    [][ /\ \A r \in AllDeploys' :
              \A k \in 1..Len(r.putOks) :
                  ~r.putOks[k] =>
                      /\ r.pc = "failed"
                      /\ k = Len(r.putOks)
                      /\ r.puts = SubSeq(Paths(r.project), 1, k)
                      /\ r.probes = SubSeq(Paths(r.project), 1, k)
                      /\ r.hostCalls = 0
                      /\ r.result = NULL
                      /\ \A j \in 1..(k - 1) : <<r.repoName, r.puts[j]>> \in remoteFiles'
        /\ remoteFiles \subseteq remoteFiles'
        /\ (DeployEnds /\ finished'.putOks # <<>> /\ ~Last(finished'.putOks)) =>
              /\ step' = "REVIEW"
              /\ UNCHANGED deploymentResult ]_vars

\* C4's case: the upload of the second file failed after the first succeeded
C4_Witness ==
    /\ finished # NULL /\ finished.kind = "deploy"
    /\ finished.putOks = <<TRUE, FALSE>>
    /\ step = "REVIEW"
    /\ <<finished.repoName, finished.puts[1]>> \in remoteFiles

\* C5: if hosting provisioning fails after repository creation and all uploads
\* succeeded, the run ends in Succeeded with a result whose repoUrl is the
\* created repository's URL, isBeta false and no deployUrl; the failure is the
\* run's last log entry, a warning, and the run logs no error.
C5_HostingFailureIsNotFatal ==
    [][ (DeployEnds /\ finished'.host = "error") =>
            LET r == finished' IN
            /\ r.created = "ok"
            /\ r.putOks = [j \in 1..Len(r.project.files) |-> TRUE]
            /\ step' = "SUCCESS"
            /\ deploymentResult' = r.result
            /\ r.result.repoUrl = RepoUrl(r.config.githubUsername, r.repoName)
            /\ r.result.isBeta = FALSE
            /\ r.result.deployUrl = NULL
            /\ Last(r.emitted).type = "warning"
            /\ \A n \in 1..Len(r.emitted) : r.emitted[n].type # "error"
            /\ logs' = logs (+) One(Last(r.emitted)) ]_vars

\* C5's case: a run whose hosting call failed has ended
C5_Witness ==
    /\ finished # NULL /\ finished.kind = "deploy"
    /\ finished.host = "error" /\ finished.pc = "done"
    /\ Len(finished.puts) = MaxFiles
    /\ step = "SUCCESS"

\* C6: a run calls the hosting adapter at most once, and only if its
\* configuration has useBetaDeploy set and a hosting token, and only after its
\* repository creation and every one of its uploads succeeded.
C6_HostingCallGuard ==
    \A r \in AllDeploys :
        /\ r.hostCalls \in {0, 1}
        /\ r.hostCalls > 0 =>
              /\ r.config.useBetaDeploy /\ r.config.vercelToken # ""
              /\ r.created = "ok"
              /\ r.puts = Paths(r.project)
              /\ r.putOks = [j \in 1..Len(r.project.files) |-> TRUE]

\* C6's case: the hosting call of a run with files is pending
C6_Witness ==
    \E r \in DeployRuns : r.pc = "host" /\ r.hostCalls = 1 /\ Len(r.puts) = MaxFiles

\* C7: whenever the phase is Succeeded a result is present with repoUrl set,
\* its deployUrl is set iff isBeta is true, and only a deployment that ends
\* successfully writes the result, with isBeta true iff its hosting call was
\* answered with success.
C7_ResultOfSuccess ==
    [][ /\ step' = "SUCCESS" =>
              /\ deploymentResult' # NULL
              /\ deploymentResult'.repoUrl # NULL
              /\ (deploymentResult'.deployUrl # NULL) <=> deploymentResult'.isBeta
        /\ deploymentResult' # deploymentResult => (DeployEnds /\ finished'.pc = "done")
        /\ (DeployEnds /\ finished'.pc = "done") =>
              /\ deploymentResult' = finished'.result
              /\ finished'.result.isBeta <=> finished'.host \in {"created", "exists"} ]_vars

\* C7's case: the phase is Succeeded with hosting provisioned
C7_Witness ==
    /\ step = "SUCCESS"
    /\ deploymentResult # NULL /\ deploymentResult.isBeta
    /\ finished # NULL /\ finished.kind = "deploy" /\ finished.host = "created"

\* C8: when the provider answers the hosting call with "project already
\* exists", the run ends in Succeeded with isBeta true and the hosting URL made
\* of the username and the project name; the step's only log entry after its
\* announcement is a success entry.
C8_AlreadyExistsIsSuccess ==
    [][ (DeployEnds /\ finished'.host = "exists") =>
            LET r == finished'
                n == Len(r.emitted)
            IN
            /\ r.config.useBetaDeploy /\ r.config.vercelToken # ""
            /\ step' = "SUCCESS"
            /\ deploymentResult' = r.result
            /\ r.result.isBeta
            /\ r.result.deployUrl =
                   [site |-> "vercel.com", owner |-> r.config.githubUsername, name |-> r.repoName]
            /\ r.emitted[n].type = "success"
            /\ r.emitted[n - 1] =
                   LogEntry("info", <<"3. [Beta] Creating Vercel Project automatically...">>)
            /\ \A m \in 1..n : r.emitted[m].type # "error"
            /\ logs' = logs (+) One(r.emitted[n]) ]_vars

\* C8's case: a run whose hosting call was answered "already exists" has ended
C8_Witness ==
    /\ finished # NULL /\ finished.kind = "deploy"
    /\ finished.host = "exists" /\ finished.pc = "done"
    /\ step = "SUCCESS" /\ deploymentResult # NULL /\ deploymentResult.isBeta

\* C9: a run uploads its files one after the other in the declared order: the
\* uploads issued are a prefix of the project's paths, every upload but the
\* last issued has returned successfully, and at most one upload is
\* outstanding.
C9_UploadsAreSequential ==
    \A r \in AllDeploys :
        /\ Len(r.puts) <= Len(r.project.files)
        /\ r.puts = SubSeq(Paths(r.project), 1, Len(r.puts))
        /\ Len(r.puts) - Len(r.putOks) \in {0, 1}
        /\ \A j \in 1..(Len(r.puts) - 1) : j <= Len(r.putOks) /\ r.putOks[j]

\* C9's case: the upload of the last file is outstanding after the others returned
C9_Witness ==
    \E r \in DeployRuns :
        r.pc = "put" /\ Len(r.puts) = MaxFiles /\ Len(r.putOks) = MaxFiles - 1

\* C10: the probe is best-effort: whatever the probe of a path answered, the
\* upload of that path is issued next, with the sha the probe returned when it
\* found content and with none when it threw or answered not ok; a run fails
\* only on a failed repository creation or a failed upload.
C10_ProbeIsBestEffort ==
    /\ \A r \in DeployRuns :
          r.probe # NULL =>
              /\ r.pc = "put"
              /\ Last(r.puts) = r.project.files[r.i].path
              /\ Len(r.puts) = r.i
              /\ r.probe.kind = "ok" => r.sha = r.probe.sha
              /\ r.probe.kind \in {"notok", "throw"} => r.sha = ""
    /\ \A r \in LastDeploy :
          r.pc = "failed" =>
              \/ r.created = "failed"
              \/ r.putOks # <<>> /\ ~Last(r.putOks)

\* C10's case: an upload is outstanding after its probe failed
C10_Witness ==
    \E r \in DeployRuns : r.pc = "put" /\ r.probe # NULL /\ r.probe.kind = "throw"

\* C10's other case: an upload carries the sha of the content the probe found
C10_WitnessFound ==
    \E r \in DeployRuns : r.pc = "put" /\ r.probe # NULL /\ r.probe.kind = "ok" /\ r.sha = "3f2a"

\* the edges of the transition table, with navigate-back and restart
TableEdges ==
    { <<"CONFIG", "PROMPT">>, <<"PROMPT", "GENERATING">>, <<"GENERATING", "REVIEW">>,
      <<"GENERATING", "PROMPT">>, <<"REVIEW", "DEPLOYING">>, <<"DEPLOYING", "SUCCESS">>,
      <<"DEPLOYING", "REVIEW">>, <<"REVIEW", "PROMPT">>, <<"SUCCESS", "PROMPT">> }

\* C11: every change of phase is an edge of the transition table, and the
\* phase leaves Generating or Deploying only in the step in which a run of
\* that kind returns.
C11_PhaseChangesFollowTheTable ==
    [][ step' # step =>
            /\ <<step, step'>> \in TableEdges
            /\ step = "GENERATING" => (RunEnds /\ finished'.kind = "gen")
            /\ step = "DEPLOYING" => (RunEnds /\ finished'.kind = "deploy") ]_vars

\* C12: in every state whose phase is not Configuring a verification has
\* succeeded and the stored username is an identity a verification returned
\* (so the phase leaves Configuring only after a successful verification).
C12_VerifiedBeforeLeavingConfig ==
    step # "CONFIG" => (verified # {} /\ config.githubUsername \in verified)

\* C12's case: a first visit has logged in
C12_Witness ==
    /\ step = "PROMPT" /\ lsConfig # NULL /\ restore = "idle"
    /\ config.githubUsername \in verified

\* a step in which a verification returns with a failure
VerificationFails ==
    \/ \E i \in 1..Len(logins), u \in Logins : LoginVerifyReturn(i, FALSE, u)
    \/ \E u \in Logins : RestoreVerifyReturn(FALSE, u)

\* C13: whenever a credential verification fails (at login or at startup) the
\* phase afterwards is Configuring and exactly one log entry reports it.
C13_FailedVerificationEndsInConfig ==
    [][ VerificationFails =>
            /\ step' = "CONFIG"
            /\ \E e \in BagToSet(logs') :
                  /\ e.type \in {"error", "warning"}
                  /\ logs' = logs (+) One(e) ]_vars

\* ------------------------------------------- requests that fail validation
\* handleGenerate called with an empty or whitespace-only prompt, and
\* handleDeploy called without a project or without a username, past the
\* buttons that keep such calls away
BlankPrompts == {"", " "}

BlankGenerateRequest == prompt \in BlankPrompts /\ handleGenerate

InvalidDeployRequest == (project = NULL \/ config.githubUsername = "") /\ handleDeploy

HandlerNext == Next \/ BlankGenerateRequest \/ InvalidDeployRequest

HandlerSpec == Init /\ [][HandlerNext]_vars

\* C14: a generate request with an empty or whitespace-only prompt, and a
\* deploy request with no project or no username, changes nothing: phase,
\* project, history (memory, local storage, gist) and log are unchanged and
\* no adapter call is issued.
C14_InvalidRequestChangesNothing ==
    [][ (BlankGenerateRequest \/ InvalidDeployRequest) =>
            UNCHANGED <<step, project, prompt, savedProjects, lsHistory, gists, logs,
                        runs, logins, syncs, pushes, repos, remoteFiles, deploymentResult>> ]_vars

\* C14's case: a whitespace-only prompt in the editor with no project present
C14_Witness ==
    /\ step = "PROMPT" /\ prompt = " " /\ project = NULL
    /\ nRequests < MaxRequests

\* C15: every step from Succeeded to AwaitingPrompt clears the project, the
\* prompt and the log and leaves the history (memory, local storage, gist)
\* unchanged.
C15_LeavingSuccessClears ==
    [][ (step = "SUCCESS" /\ step' = "PROMPT") =>
            /\ project' = NULL /\ prompt' = "" /\ logs' = EmptyBag
            /\ UNCHANGED <<savedProjects, lsHistory, gists>> ]_vars

\* ------------------------------------------------- the merge of a sync
\* Records a history list may hold: the same id with two timestamps stands
\* for two copies of one record, different ids with the same timestamp,
\* prompt and project for records of equal content.
MergeIds == {100, 200, 300}

MergeStamps == {1, 3}

MergeRecords ==
    { [id |-> n, timestamp |-> t, prompt |-> "blog", project |-> GeneratedProject("blog", 1)] :
          n \in MergeIds, t \in MergeStamps }

Ids(history) == {history[i].id : i \in 1..Len(history)}

DistinctIds(history) == Cardinality(Ids(history)) = Len(history)

\* the lists of at most MaxHistory records with distinct ids, in any order
Histories ==
    UNION { {h \in [1..n -> MergeRecords] : DistinctIds(h)} : n \in 0..MaxHistory }

\* the app is opened with a stored session, a local list and a list in the gist
MergeStores ==
    { [cfg |-> [githubToken |-> "ghp", githubUsername |-> "octo", vercelToken |-> "",
                useBetaDeploy |-> FALSE],
       hist |-> Stringify(l), gists |-> <<Gist(r)>>] : l \in Histories, r \in Histories }

MergeInit == InitFrom(MergeStores)

\* the session is restored and its silent sync returns
MergeNext ==
    \/ \E ok \in BOOLEAN, u \in Logins : RestoreVerifyReturn(ok, u)
    \/ \E i \in 1..Len(syncs), ok \in BOOLEAN : SyncReturn(i, ok)

MergeSpec == MergeInit /\ [][MergeNext]_vars

\* a step in which a sync returns with the list of the gist
SyncMerges == Len(gists) > 0 /\ \E i \in 1..Len(syncs) : SyncReturn(i, TRUE)

\* C16: for a local list L and a remote list R with distinct ids within each,
\* the merged list has length |R| plus the number of records of L whose id is
\* not in R, and contains every id of L and of R.
C16_MergeLengthAndIds ==
    [][ SyncMerges =>
            LET L == savedProjects
                R == gists[1].history
                M == savedProjects'
            IN (DistinctIds(L) /\ DistinctIds(R)) =>
                  /\ Len(M) = Len(R) + Cardinality({i \in 1..Len(L) : L[i].id \notin Ids(R)})
                  /\ Ids(L) \cup Ids(R) \subseteq Ids(M) ]_vars

\* C16's case: two local and two remote records that share one id were merged
C16_Witness ==
    /\ syncs = <<>> /\ restore = "done"
    /\ Len(savedProjects) = 3
    /\ Len(gists[1].history) = 2
    /\ lsHistory = Stringify(savedProjects)

\* C17: the merged list is sorted by timestamp, newest first, whatever the
\* order of the local and the remote list.
C17_MergeIsSorted ==
    [][ SyncMerges =>
            \A i \in 1..(Len(savedProjects') - 1) :
                savedProjects'[i].timestamp >= savedProjects'[i + 1].timestamp ]_vars

\* C17's case: a remote list that was oldest first has been merged into a
\* list with both timestamps
C17_Witness ==
    /\ syncs = <<>> /\ restore = "done"
    /\ Len(savedProjects) > MaxHistory
    /\ Len(gists[1].history) = 2
    /\ gists[1].history[1].timestamp < gists[1].history[2].timestamp
    /\ savedProjects[1].timestamp > savedProjects[Len(savedProjects)].timestamp

\* C18: an id that occurs in the local and in the remote list occurs once in
\* the merged list, with the remote list's copy; every remote record and every
\* local record with an id of its own is kept as it is, whatever its content.
C18_MergeKeepsRemoteCopy ==
    [][ SyncMerges =>
            LET L == savedProjects
                R == gists[1].history
                M == savedProjects'
            IN /\ \A x \in Ids(L) \cap Ids(R) :
                      /\ Cardinality({i \in 1..Len(M) : M[i].id = x}) = 1
                      /\ \E i \in 1..Len(M), j \in 1..Len(R) : R[j].id = x /\ M[i] = R[j]
               /\ \A j \in 1..Len(R) : \E i \in 1..Len(M) : M[i] = R[j]
               /\ \A k \in 1..Len(L) :
                      L[k].id \notin Ids(R) => \E i \in 1..Len(M) : M[i] = L[k] ]_vars

\* C18's case: the merged list holds the remote copy of a shared id next to
\* records of other ids with the same timestamp, prompt and project
C18_Witness ==
    /\ syncs = <<>> /\ restore = "done"
    /\ Len(savedProjects) > MaxHistory
    /\ \E i, j \in 1..Len(savedProjects) :
          /\ i # j
          /\ savedProjects[i].id # savedProjects[j].id
          /\ savedProjects[i].timestamp = savedProjects[j].timestamp
          /\ savedProjects[i].project = savedProjects[j].project
    /\ \A j \in 1..Len(gists[1].history) :
          \E i \in 1..Len(savedProjects) : savedProjects[i] = gists[1].history[j]

\* ------------------------------------------------- history operations
\* variant: a saveHistory that writes local storage only when it has a token
saveHistoryWithToken(cfg, newHistory) ==
    /\ savedProjects' = newHistory
    /\ lsHistory' = IF Truthy(cfg.githubToken) THEN Stringify(newHistory) ELSE lsHistory
    /\ pushes' = PushStart(cfg.githubToken, newHistory)
    /\ pushLog' = PushLogged(cfg.githubToken, newHistory)

\* saveHistory(newHistory), with the config the calling handler closed over
saveHistory(cfg, newHistory) ==
    /\ savedProjects' = newHistory
    /\ lsHistory' = Stringify(newHistory)
    /\ pushes' = PushStart(cfg.githubToken, newHistory)
    /\ pushLog' = PushLogged(cfg.githubToken, newHistory)

\* savedProjects.some(p => p.project.name === project.name && p.prompt === prompt)
isDuplicate(history, proj, p) ==
    \E i \in 1..Len(history) : history[i].project.name = proj.name /\ history[i].prompt = p

saveCurrentProject ==
    IF project = NULL THEN UNCHANGED vars
    ELSE /\ nRequests < MaxRequests
         /\ nRequests' = nRequests + 1
         /\ IF ~isDuplicate(savedProjects, project, prompt)
               THEN LET newEntry == [id |-> nextId, timestamp |-> now, prompt |-> prompt,
                                     project |-> project]
                    IN /\ saveHistory(config, <<newEntry>> \o savedProjects)
                       /\ logs' = addLog(logs, <<"saved to history.", project.name>>, "success")
                       /\ nextId' = nextId + 1
                       /\ now' = now + 1
               ELSE /\ logs' = addLog(logs, <<"is already saved.", project.name>>, "warning")
                    /\ UNCHANGED <<savedProjects, lsHistory, pushes, nextId, now, pushLog>>
         /\ UNCHANGED <<step, config, prompt, project, deploymentResult, mode, showHistory,
                        isSyncing, lsConfig, hostVars, restore, logins, syncs, runs,
                        finished, verified, deleted>>

\* the Save button of the review panel
ClickSave ==
    /\ MainPanel /\ step \in {"REVIEW", "DEPLOYING"} /\ project # NULL
    /\ saveCurrentProject

\* variant: a delete that drops the newest record
WithoutNewest(history, id) == IF history = <<>> THEN <<>> ELSE Tail(history)

\* savedProjects.filter(p => p.id !== id)
WithoutId(history, id) ==
    LET keep(r) == r.id # id IN SelectSeq(history, keep)

deleteProject(id) ==
    /\ nRequests < MaxRequests
    /\ nRequests' = nRequests + 1
    /\ saveHistory(config, WithoutId(savedProjects, id))
    /\ deleted' = deleted \cup ({id} \cap Ids(savedProjects))
    /\ UNCHANGED <<step, config, logs, prompt, project, deploymentResult, mode, showHistory,
                   isSyncing, lsConfig, hostVars, restore, logins, syncs, runs, finished,
                   nextId, now, verified>>

\* the delete button of an entry of the history panel
ClickDelete(i) ==
    /\ showHistory
    /\ i \in 1..Len(savedProjects)
    /\ deleteProject(savedProjects[i].id)

\* deleteProject called with an id no entry of the list has, past the panel
\* that offers the ids of the list only
AbsentIds == {900}

DeleteAbsent(id) ==
    /\ id \notin Ids(savedProjects)
    /\ deleteProject(id)

\* the sync button of the history panel: disabled={isSyncing}
ClickSync ==
    /\ showHistory
    /\ Truthy(config.githubToken)
    /\ ~isSyncing
    /\ nRequests < MaxRequests
    /\ nRequests' = nRequests + 1
    /\ LET sync == SyncStart(config.githubToken, FALSE)
       IN /\ syncs' = sync.syncs
          /\ logs' = AddLogs(logs, sync.logs)
          /\ isSyncing' = sync.syncing
    /\ UNCHANGED <<step, config, prompt, project, deploymentResult, mode, savedProjects,
                   showHistory, storeVars, hostVars, restore, logins, pushes, runs,
                   finished, auxVars>>

\* the app is opened with a stored session and a stored history; the gist
\* does not exist yet, or holds the list another client pushed, with a
\* timestamp of that client's clock
HistoryStores ==
    { [cfg |-> [githubToken |-> "ghp", githubUsername |-> "octo", vercelToken |-> "",
                useBetaDeploy |-> FALSE],
       hist |-> Stringify(<<OldRecord>>), gists |-> g] :
          g \in {<<>>, <<Gist(<<CloudRecord>>)>>, <<Gist(<<AheadRecord>>)>>} }

HistoryInit == InitFrom(HistoryStores)

\* the history panel and the review panel's Save button, with the requests to
\* the gist; the token field can be edited while the stored token is verified
HistoryNext ==
    \/ \E t \in GithubTokens : SetGithubToken(t)
    \/ \E ok \in BOOLEAN, u \in Logins : RestoreVerifyReturn(ok, u)
    \/ \E i \in 1..Len(syncs), ok \in BOOLEAN : SyncReturn(i, ok)
    \/ OpenHistory
    \/ CloseHistory
    \/ \E i \in 1..Len(savedProjects) : loadProject(savedProjects[i])
    \/ ClickSync
    \/ ClickSave
    \/ \E i \in 1..Len(savedProjects) : ClickDelete(i)
    \/ \E id \in AbsentIds : DeleteAbsent(id)
    \/ \E i \in 1..Len(pushes), ok \in BOOLEAN : GistListReturn(i, ok)
    \/ \E i \in 1..Len(pushes), ok \in BOOLEAN : GistWriteReturn(i, ok)

HistorySpec == HistoryInit /\ [][HistoryNext]_vars

\* C19: creating a record whose project name and prompt equal those of a
\* record already in the history leaves the length of the history unchanged,
\* for the explicit save and for the record made on a successful generation.
C19_DuplicateCreateKeepsLength ==
    [][ /\ ClickSave =>
              (isDuplicate(savedProjects, project, prompt)
                  => Len(savedProjects') = Len(savedProjects))
        /\ \A run \in BagToSet(runs), g \in GeneratedProjects :
              GenerateReturn(run, TRUE, g) =>
                  (isDuplicate(savedProjects, g, run.prompt)
                      => Len(savedProjects') = Len(savedProjects)) ]_vars

\* C20: deleting an id that is not in the history leaves the list as it is;
\* deleting an id that is in it removes that record and keeps the others in
\* their order; neither logs an error, and the list is written to local
\* storage.
C20_DeleteRemovesOneRecord ==
    [][ \A id \in AbsentIds \cup Ids(savedProjects) :
            deleteProject(id) =>
                LET h == savedProjects
                    h2 == savedProjects'
                IN /\ id \notin Ids(h) => h2 = h
                   /\ id \in Ids(h) =>
                         \E k \in 1..Len(h) :
                             /\ h[k].id = id
                             /\ h2 = SubSeq(h, 1, k - 1) \o SubSeq(h, k + 1, Len(h))
                   /\ logs' = logs
                   /\ lsHistory' = Stringify(h2) ]_vars

\* C20's case: the older of two records was deleted and the other one is left
C20_Witness ==
    /\ savedProjects = <<CloudRecord>>
    /\ lsHistory = Stringify(<<CloudRecord>>)

\* C20's other case: an absent id was deleted and the list is as it was (no
\* record was created, and the list being pushed is the whole list)
C20_WitnessAbsent ==
    /\ nextId = 1
    /\ savedProjects = <<OldRecord>>
    /\ pushes # <<>> /\ pushes[Len(pushes)].history = <<OldRecord>>

\* C21: a sync that reads the gist leaves no record that was deleted locally,
\* neither in the local history nor in the gist, whether or not the push made
\* by the delete arrived.
C21_DeletePropagatesOnSync ==
    [][ SyncMerges =>
            \A id \in deleted :
                /\ id \notin Ids(savedProjects')
                /\ id \notin Ids(gists'[1].history) ]_vars

\* a step that changes the history: a record is created, a record is deleted,
\* or a sync merges the list of the gist
RecordCreated ==
    \/ ClickSave /\ ~isDuplicate(savedProjects, project, prompt)
    \/ \E run \in BagToSet(runs), g \in GeneratedProjects : GenerateReturn(run, TRUE, g)

RecordDeleted == \E id \in AbsentIds \cup Ids(savedProjects) : deleteProject(id)

HistoryMutation == RecordCreated \/ RecordDeleted \/ SyncMerges

\* C22: after every step that changes the history (create, delete, merge) the
\* list in local storage is the in-memory list, with or without a token and
\* whatever becomes of the push.
C22_LocalStorageFollowsHistory ==
    [][ HistoryMutation => lsHistory' = Stringify(savedProjects') ]_vars

\* C22's case: the stored record was deleted while no token was in the
\* configuration, and local storage holds the empty list
C22_Witness ==
    /\ config.githubToken = ""
    /\ deleted = {OldRecord.id}
    /\ savedProjects = <<>>
    /\ lsHistory = Stringify(<<>>)

\* a push or a load of the gist fails
PushFails ==
    \E i \in 1..Len(pushes) : GistListReturn(i, FALSE) \/ GistWriteReturn(i, FALSE)

LoadFails == \E i \in 1..Len(syncs) : SyncReturn(i, FALSE)

\* the step starts a push of the new history
PushStarted ==
    /\ Len(pushes') = Len(pushes) + 1
    /\ Last(pushes').pc = "list"
    /\ Last(pushes').history = savedProjects'

\* C23: a step that changes the history by a create or a delete starts a push
\* exactly when the handler's configuration holds a token; a failing push or
\* load changes neither the phase nor the history nor local storage; and every
\* record of the history is still in it after any sync returns.
C23_RemoteFailureIsSwallowed ==
    [][ /\ ((ClickSave /\ ~isDuplicate(savedProjects, project, prompt)) \/ RecordDeleted)
              => (PushStarted <=> Truthy(config.githubToken))
        /\ \A run \in BagToSet(runs), g \in GeneratedProjects :
              GenerateReturn(run, TRUE, g) => (PushStarted <=> Truthy(run.config.githubToken))
        /\ (PushFails \/ LoadFails) => UNCHANGED <<step, savedProjects, lsHistory>>
        /\ (\E i \in 1..Len(syncs), ok \in BOOLEAN : SyncReturn(i, ok))
              => \A k \in 1..Len(savedProjects) :
                     \E j \in 1..Len(savedProjects') : savedProjects'[j] = savedProjects[k] ]_vars

\* C23's case: a record was saved, its push was not made or did not reach the
\* gist, and the sync has merged the gist's record; the saved record is in the history and
\* not in the gist
C23_Witness ==
    /\ pushes = <<>> /\ syncs = <<>> /\ restore = "done"
    /\ Len(gists) = 1
    /\ CloudRecord.id \in Ids(savedProjects)
    /\ \E k \in 1..Len(savedProjects) :
          /\ savedProjects[k].id = 1
          /\ savedProjects[k].id \notin Ids(gists[1].history)

\* C24: a sync that finds no sync gist changes neither the history nor local
\* storage and starts no request that writes to the host; a push is started
\* only by a step that creates or deletes a record, and the first gist is the
\* one such a push creates.
C24_SyncWithoutRemoteIsNoOp ==
    [][ /\ (Len(gists) = 0 /\ \E i \in 1..Len(syncs) : SyncReturn(i, TRUE))
              => UNCHANGED <<savedProjects, lsHistory, gists, pushes>>
        /\ Len(pushes') > Len(pushes) => (RecordCreated \/ RecordDeleted)
        /\ (Len(gists) = 0 /\ Len(gists') > 0)
              => \E i \in 1..Len(pushes) :
                    /\ GistWriteReturn(i, TRUE)
                    /\ gists' = <<Gist(pushes[i].history)>> ]_vars

\* C24's case: the sync button's sync found nothing, and the gist that exists
\* now was created by a push of this client
C24_Witness ==
    /\ syncs = <<>> /\ restore = "done"
    /\ \E e \in BagToSet(logs) :
          e = LogEntry("info", <<"No cloud history found. Creating new sync file...">>)
    /\ Len(gists) = 1
    /\ CloudRecord.id \notin Ids(gists[1].history) \cup Ids(savedProjects) \cup deleted

\* the step appends exactly one entry to the log
OneEntryLogged == \E e \in BagToSet(logs') : logs' = logs (+) One(e)

\* C25: each failure appends exactly one entry to the log: a failed
\* verification, a failed generation, a failed repository creation, a failed
\* upload (its entry names the file's path), a failed hosting call and a
\* failed history sync.
C25_OneLogEntryPerFailure ==
    [][ /\ VerificationFails => OneEntryLogged
        /\ \A run \in BagToSet(runs) :
              /\ (\E g \in GeneratedProjects : GenerateReturn(run, FALSE, g)) => OneEntryLogged
              /\ CreateRepoReturn(run, FALSE) => OneEntryLogged
              /\ PutReturn(run, FALSE) =>
                    /\ OneEntryLogged
                    /\ logs' = logs (+) One(LogEntry("error",
                                   <<"Failed to upload", run.project.files[run.i].path>>))
              /\ HostReturn(run, "error") => OneEntryLogged
        /\ LoadFails => OneEntryLogged ]_vars

\* ------------------------------------------------------------ progress
\* every adapter call of the pipeline returns: the model, the source-control
\* host for the repository, the probe and the upload, and the hosting provider
AdapterCallsReturn ==
    /\ WF_vars(\E run \in BagToSet(runs), ok \in BOOLEAN, g \in GeneratedProjects :
                   GenerateReturn(run, ok, g))
    /\ WF_vars(\E run \in BagToSet(runs), ok \in BOOLEAN : CreateRepoReturn(run, ok))
    /\ WF_vars(\E run \in BagToSet(runs), resp \in ProbeResponses : ProbeReturn(run, resp))
    /\ WF_vars(\E run \in BagToSet(runs), ok \in BOOLEAN : PutReturn(run, ok))
    /\ WF_vars(\E run \in BagToSet(runs), resp \in VercelResponses : HostReturn(run, resp))

\* the app is opened with a stored session that wants hosting
LiveStores ==
    { [cfg |-> [githubToken |-> "ghp", githubUsername |-> "octo", vercelToken |-> "vct",
                useBetaDeploy |-> TRUE],
       hist |-> Stringify(<<OldRecord>>), gists |-> <<>>] }

LiveInit == InitFrom(LiveStores)

\* the pipeline with the panels that can start it or change the phase under it
LiveNext ==
    \/ \E ok \in BOOLEAN, u \in Logins : RestoreVerifyReturn(ok, u)
    \/ OpenHistory
    \/ CloseHistory
    \/ \E i \in 1..Len(savedProjects) : loadProject(savedProjects[i])
    \/ \E p \in Prompts : SetPrompt(p)
    \/ BackToEditor
    \/ CreateNewApp
    \/ ClickGenerate
    \/ \E run \in BagToSet(runs), ok \in BOOLEAN, g \in GeneratedProjects : GenerateReturn(run, ok, g)
    \/ ClickDeploy
    \/ \E run \in BagToSet(runs), ok \in BOOLEAN : CreateRepoReturn(run, ok)
    \/ \E run \in BagToSet(runs), resp \in ProbeResponses : ProbeReturn(run, resp)
    \/ \E run \in BagToSet(runs), ok \in BOOLEAN : PutReturn(run, ok)
    \/ \E run \in BagToSet(runs), resp \in VercelResponses : HostReturn(run, resp)

LiveSpec == LiveInit /\ [][LiveNext]_vars /\ AdapterCallsReturn

\* C26: when every adapter call returns, GENERATING is followed by REVIEW or
\* PROMPT and DEPLOYING by SUCCESS or REVIEW.
C26_PipelinePhasesEnd ==
    /\ (step = "GENERATING") ~> (step \in {"REVIEW", "PROMPT"})
    /\ (step = "DEPLOYING") ~> (step \in {"SUCCESS", "REVIEW"})

\* C26's case: a deployment was entered, an adapter call of it failed, and
\* the phase is REVIEW
C26_Witness ==
    /\ finished # NULL
    /\ finished.kind = "deploy" /\ finished.pc = "failed"
    /\ step = "REVIEW"

\* the positions in a run's events of the entries that start with tag, and the
\* paths of its progress events in the order they were emitted
Positions(emitted, tag) == {k \in 1..Len(emitted) : emitted[k].message[1] = tag}

ProgressPaths(emitted) ==
    LET isProgress(e) == e.message[1] = "Pushing"
        events == SelectSeq(emitted, isProgress)
    IN [k \in 1..Len(events) |-> events[k].message[2]]

HostingTags ==
    {"3. [Beta] Creating Vercel Project automatically...",
     "3. Skipping auto-deploy (Beta disabled or no token)."}

\* C27: in the events of every deployment run the repository-creation event
\* comes before every progress event; the progress events are those of the
\* files probed so far, in the declared order, and the event of file i is there
\* only when the upload of file i-1 has returned; the hosting-step event comes
\* after every progress event.
C27_ProgressEventsInStepOrder ==
    \A r \in AllDeploys :
        LET ev == ProgressPaths(r.emitted) IN
        /\ \A c \in Positions(r.emitted, "1. Creating repository"),
              u \in Positions(r.emitted, "Pushing") : c < u
        /\ Positions(r.emitted, "1. Creating repository") # {}
        /\ ev = r.probes
        /\ ev = SubSeq(Paths(r.project), 1, Len(ev))
        /\ Len(ev) <= Len(r.putOks) + 1
        /\ Len(r.puts) <= Len(ev)
        /\ \A h \in UNION {Positions(r.emitted, t) : t \in HostingTags},
              u \in Positions(r.emitted, "Pushing") : u < h
        /\ r.hostCalls > 0 =>
              Positions(r.emitted, "3. [Beta] Creating Vercel Project automatically...") # {}

\* C27's case: a run uploaded MaxFiles files and called the hosting provider
C27_Witness ==
    /\ finished # NULL /\ finished.kind = "deploy" /\ finished.pc = "done"
    /\ Len(finished.putOks) = MaxFiles
    /\ finished.hostCalls = 1
    /\ Len(ProgressPaths(finished.emitted)) = MaxFiles

\* a generation with the history panel in use while the model answers: the
\* History button is rendered in GENERATING as in every step but CONFIG
RaceNext ==
    \/ \E ok \in BOOLEAN, u \in Logins : RestoreVerifyReturn(ok, u)
    \/ \E i \in 1..Len(syncs), ok \in BOOLEAN : SyncReturn(i, ok)
    \/ \E p \in Prompts : SetPrompt(p)
    \/ ClickGenerate
    \/ \E run \in BagToSet(runs), ok \in BOOLEAN, g \in GeneratedProjects : GenerateReturn(run, ok, g)
    \/ OpenHistory
    \/ CloseHistory
    \/ \E i \in 1..Len(savedProjects) : ClickDelete(i)
    \/ \E i \in 1..Len(pushes), ok \in BOOLEAN : GistListReturn(i, ok)
    \/ \E i \in 1..Len(pushes), ok \in BOOLEAN : GistWriteReturn(i, ok)

RaceSpec == HistoryInit /\ [][RaceNext]_vars

\* C28: a successful generation puts exactly one new record in front of the
\* history as it is when the generation completes: the other records are the
\* ones the history held just before, in the same order.
C28_GenerationKeepsTheHistory ==
    [][ \A run \in BagToSet(runs), g \in GeneratedProjects :
            GenerateReturn(run, TRUE, g) =>
                /\ Len(savedProjects') = Len(savedProjects) + 1
                /\ Tail(savedProjects') = savedProjects
                /\ Head(savedProjects').id \notin Ids(savedProjects)
                /\ Head(savedProjects').project = g ]_vars

\* ------------------------------------------------------------- restart
\* loadProject called while another panel than the review panel is shown; the
\* deployments bound the run, so these loads are not counted as requests
ReloadProject(entry) ==
    /\ showHistory
    /\ step # "REVIEW"
    /\ prompt' = entry.prompt
    /\ project' = entry.project
    /\ step' = "REVIEW"
    /\ showHistory' = FALSE
    /\ logs' = addLog(logs, <<"Loaded project", entry.project.name>>, "info")
    /\ UNCHANGED <<config, deploymentResult, mode, savedProjects, isSyncing,
                   storeVars, hostVars, restore, logins, syncs, pushes, runVars,
                   auxVars>>

\* deployments of projects loaded from the history, and the restart
RestartNext ==
    \/ \E ok \in BOOLEAN, u \in Logins : RestoreVerifyReturn(ok, u)
    \/ OpenHistory
    \/ CloseHistory
    \/ \E i \in 1..Len(savedProjects) : ReloadProject(savedProjects[i])
    \/ ClickDeploy
    \/ \E run \in BagToSet(runs), ok \in BOOLEAN : CreateRepoReturn(run, ok)
    \/ \E run \in BagToSet(runs), resp \in ProbeResponses : ProbeReturn(run, resp)
    \/ \E run \in BagToSet(runs), ok \in BOOLEAN : PutReturn(run, ok)
    \/ \E run \in BagToSet(runs), resp \in VercelResponses : HostReturn(run, resp)
    \/ CreateNewApp

RestartSpec == LiveInit /\ [][RestartNext]_vars

\* C29: in every reachable state whose phase is REVIEW or DEPLOYING a project
\* is present.
C29_ProjectPresentInReview == step \in {"REVIEW", "DEPLOYING"} => project # NULL

\* C30: the in-memory history is sorted by timestamp, newest first, after any
\* sequence of creations, deletions and syncs, the timestamps of each client
\* being non-decreasing.
C30_HistoryIsSorted ==
    \A i \in 1..(Len(savedProjects) - 1) :
        savedProjects[i].timestamp >= savedProjects[i + 1].timestamp

\* ------------------------------------------------------------- records
\* every way the history changes: records made by a generation and by the
\* Save button, deletes, the silent sync and the sync button, and the pushes
RecordsNext == RaceNext \/ ClickSave \/ ClickSync

RecordsSpec == HistoryInit /\ [][RecordsNext]_vars

\* C31: no two records of the in-memory history have the same id, after any
\* sequence of creations, deletions and syncs (fresh ids are unique, the list
\* of the gist has no repeated id).
C31_HistoryIdsAreDistinct == DistinctIds(savedProjects)

\* C31's case: a record was created, a record was deleted, and the record of
\* the gist was merged in
C31_Witness ==
    /\ nextId > 1
    /\ deleted # {}
    /\ syncs = <<>> /\ restore = "done"
    /\ Len(savedProjects) >= 2
    /\ Ids(savedProjects) \cap {CloudRecord.id, AheadRecord.id} # {}
    /\ \E k \in 1..Len(savedProjects) : savedProjects[k].id < nextId

\* C32: when pushes of this client overlapped and all its pushes have ended
\* without a failure, the host holds exactly one sync gist and its content is
\* the list of the latest call of saveHistory.
C32_OverlappingPushesConverge ==
    (pushes = <<>> /\ pushLog.overlapped /\ ~pushLog.failed) =>
        /\ Len(gists) = 1
        /\ gists[1].history = pushLog.latest.history

\* a step of a deployment run: its start or the return of one of its calls
DeployStep ==
    \/ ClickDeploy /\ ~DeployDisabled
    \/ \E run \in BagToSet(runs) :
          \/ \E ok \in BOOLEAN : CreateRepoReturn(run, ok) \/ PutReturn(run, ok)
          \/ \E resp \in ProbeResponses : ProbeReturn(run, resp)
          \/ \E resp \in VercelResponses : HostReturn(run, resp)

\* the ids of the records the gists hold
GistIds == UNION {Ids(gists[k].history) : k \in 1..Len(gists)}

\* C33: a failed generation changes neither the project nor the history, in
\* memory, in local storage or on the way to the gist; no step of a deployment
\* run changes them; a record with an id that neither the history nor the
\* gist held appears only in a step that creates a record (a successful
\* generation or a save).
C33_OnlyCreationsAddRecords ==
    [][ /\ (\E run \in BagToSet(runs), g \in GeneratedProjects : GenerateReturn(run, FALSE, g))
              => UNCHANGED <<project, savedProjects, lsHistory, gists, pushes>>
        /\ DeployStep => UNCHANGED <<project, savedProjects, lsHistory, gists, pushes>>
        /\ (Ids(savedProjects') \ (Ids(savedProjects) \cup GistIds) # {}) => RecordCreated ]_vars

\* C33's case: a generation failed while a project was present, after a
\* deployment of that project had ended
C33_Witness ==
    /\ finished # NULL /\ finished.kind = "gen" /\ finished.pc = "failed"
    /\ project # NULL
    /\ repos # {}
    /\ step = "PROMPT"

====
